---- MODULE Spec2Model ----
(***************************************************************************)
(* A model of steamnews' fetcher.py: one process run after another         *)
(* (cron), each run being main() on an asyncio event loop with the         *)
(* ten-minute timer of __main__.  The persistent state is the sqlite       *)
(* table "games" and the files under steamnews/; everything else is the    *)
(* memory of the running process and is lost when the process ends.        *)
(*                                                                         *)
(* The event loop is cooperative: a network callback (connection_made,     *)
(* connection_lost) or the timer runs only while main is suspended at a    *)
(* "yield from" (or has died).  The synchronous stretches of main are      *)
(* split into steps only so that a process kill can fall between them.     *)
(***************************************************************************)
EXTENDS Integers, Sequences, FiniteSets, TLC

(* ------------------------------ bounds --------------------------------- *)
MaxId == 3

MaxCatalog == 2

MaxRuns == 2

\* the runs of the specification that states fairness
LiveRuns == 1

MaxTime == 2

\* The clock counts hours: the 60*60 seconds of Game.needs_update are 1.
FRESH == 1

\* GameDB.get_news's chunk_size (500 in the source), scaled to the model's ids.
chunk_size == 2

\* The only number filter_out_garbage configures: its chunk_size (20 in the
\* source, never read by the code), scaled to the model's catalog.
detail_chunk_size == 1

Ids == 1..MaxId

\* the longest news body without markup
MaxText == 3

\* the longest text before, inside and after the markup of a news body
MaxPart == 1

(* ------------------------------ helpers -------------------------------- *)
None == <<>>

Some(x) == <<x>>

Range(s) == {s[i] : i \in DOMAIN s}

SeqsUpTo(S, n) == UNION {[1..k -> S] : k \in 0..n}

RECURSIVE SelectSeqBy(_, _)
\* a list comprehension with a filter over the ids of a sequence
SelectSeqBy(s, keep) ==
    IF s = <<>> THEN <<>>
    ELSE IF Head(s) \in keep THEN <<Head(s)>> \o SelectSeqBy(Tail(s), keep)
         ELSE SelectSeqBy(Tail(s), keep)

RECURSIVE SortedSeq(_)
\* the ids of a set in ascending order (sqlite scans games by its rowid, appid)
SortedSeq(S) ==
    IF S = {} THEN <<>>
    ELSE LET m == CHOOSE x \in S : \A y \in S : x <= y
         IN <<m>> \o SortedSeq(S \ {m})

(* --------------------------- GameDB.USELESS ---------------------------- *)
\* Titles are tuples of characters.
Contains(name, pat) ==
    \E i \in 0..(Len(name) - Len(pat)) :
        \A j \in 1..Len(pat) : name[i + j] = pat[j]

EndsWith(name, pat) ==
    /\ Len(name) >= Len(pat)
    /\ \A j \in 1..Len(pat) : name[Len(name) - Len(pat) + j] = pat[j]

UselessAnywhere ==
    { <<"?","?","?">>,
      <<"V","a","l","v","e","T","e","s","t","A","p","p">>,
      <<"G","a","m","e"," ","K","e","y">>,
      <<" ","E","3"," ">>,
      <<"D","L","C">>,
      <<"D","e","d","i","c","a","t","e","d"," ","S","e","r","v","e","r">>,
      <<"D","e","d","i","c","a","t","e","d"," ","s","e","r","v","e","r">>,
      <<"_">>,
      <<"S","o","u","n","d","t","r","a","c","k">>,
      <<"P","r","e","-","O","r","d","e","r">>,
      <<"P","r","e","-","o","r","d","e","r">>,
      <<"T","e","a","s","e","r">>,
      <<"t","r","a","i","l","e","r">>,
      <<"T","r","a","i","l","e","r">>,
      <<"A","d","d","-","O","n">>,
      <<"C","D"," ","K","e","y">> }

UselessAtEnd ==
    { <<"G","a","m","e","p","l","a","y">>,
      <<"P","r","e","v","i","e","w">>,
      <<"R","e","v","i","e","w">>,
      <<"P","a","c","k">>,
      <<"S","t","r","a","t","e","g","y"," ","G","u","i","d","e">>,
      <<"D","e","v","e","l","o","p","m","e","n","t"," ","K","i","t">>,
      <<"F","o","i","l"," ","C","o","n","v","e","r","s","i","o","n">>,
      <<"F","o","i","l">>,
      <<"D","e","c","k"," ","K","e","y">>,
      <<"D","e","m","o">> }

\* the regular expression's match: first alternative .*(a|b|..).*, second
\* .*(x|y|..)$ ("Trailer \d" is covered by "Trailer")
USELESS(name) ==
    \/ \E p \in UselessAnywhere : Contains(name, p)
    \/ \E p \in UselessAtEnd : EndsWith(name, p)

Foo == <<"F","o","o">>

FooDemo == <<"F","o","o"," ","D","e","m","o">>

Names == {Foo, FooDemo}

\* what AppList.final_decoding can return: json['applist']['apps']
CatalogEntries == [appid : Ids, name : Names]

Catalogs == SeqsUpTo(CatalogEntries, MaxCatalog)


(* ---------------------------- AtomRenderer ----------------------------- *)
\* Texts are tuples of characters, as titles are.  The operators on them
\* name the value of their argument (v \in {value}) before they work on it,
\* so that it is worked out once however often it is read.
The(S) == CHOOSE x \in S : TRUE

RECURSIVE Flat(_)
\* ''.join(parts)
Flat(parts) ==
    The({IF p = <<>> THEN <<>> ELSE Head(p) \o Flat(Tail(p)) : p \in {parts}})

\* str.lower(), on the characters of the model
Lower(value) == [k \in DOMAIN value |-> IF value[k] = "H" THEN "h" ELSE value[k]]

\* cgi.escape(s): & first, then < and >
EscapeChar(c) ==
    CASE c = "&" -> <<"&","a","m","p",";">>
      [] c = "<" -> <<"&","l","t",";">>
      [] c = ">" -> <<"&","g","t",";">>
      [] OTHER -> <<c>>

escape(value) == The({Flat([k \in DOMAIN v |-> EscapeChar(v[k])]) : v \in {value}})

\* bbcode's tags, and img and h1..h6 of AtomRenderer.__init__
recognized_tags ==
    { <<"b">>, <<"i">>, <<"u">>, <<"s">>, <<"h","r">>, <<"s","u","b">>,
      <<"s","u","p">>, <<"b","r">>, <<"l","i","s","t">>, <<"*">>,
      <<"q","u","o","t","e">>, <<"c","o","d","e">>,
      <<"c","e","n","t","e","r">>, <<"c","o","l","o","r">>, <<"u","r","l">>,
      <<"i","m","g">>, <<"h","1">>, <<"h","2">>, <<"h","3">>, <<"h","4">>,
      <<"h","5">>, <<"h","6">>}

H1 == <<"[","h","1","]">>

H1Upper == <<"[","H","1","]">>

H1End == <<"[","/","h","1","]">>

StartsWith(value, pat) ==
    /\ Len(value) >= Len(pat)
    /\ SubSeq(value, 1, Len(pat)) = pat

\* where the first [/h1] of value begins, 0 if there is none
FindClosing(value) ==
    LET at == {k \in DOMAIN value : StartsWith(Lower(SubSeq(value, k, Len(value))), H1End)}
    IN IF at = {} THEN 0 ELSE CHOOSE k \in at : \A j \in at : k <= j

RECURSIVE bbcode_format(_)
\* bbcode_parser.format(value) of the parser AtomRenderer configures
\* (escape_html=False, replace_links=False, h1 a simple formatter
\* '<h1>%(value)s</h1>'), for texts with [h1] as their only tag: the tag's
\* name is matched in any case, the text outside a tag is copied as it is.
bbcode_format(value) ==
    The({IF v = <<>> THEN <<>>
         ELSE IF StartsWith(Lower(v), H1)
              THEN LET rest == SubSeq(v, Len(H1) + 1, Len(v))
                       c == FindClosing(rest)
                       inner == IF c = 0 THEN rest ELSE SubSeq(rest, 1, c - 1)
                       after == IF c = 0 THEN <<>>
                                ELSE SubSeq(rest, c + Len(H1End), Len(rest))
                   IN <<"<","h","1",">">> \o bbcode_format(inner)
                          \o <<"<","/","h","1",">">> \o bbcode_format(after)
              ELSE <<Head(v)>> \o bbcode_format(Tail(v))
         : v \in {value}})

\* mutant: the parser's output goes out as it is
render_article_unescaped(value) ==
    The({IF \E k \in recognized_tags : Contains(Lower(v), <<"[">> \o k)
         THEN bbcode_format(v)
         ELSE escape(v)
         : v \in {value}})

\* the template's filter 'article'
render_article(value) ==
    The({IF \E k \in recognized_tags : Contains(Lower(v), <<"[">> \o k)
         THEN escape(bbcode_format(v))
         ELSE escape(v)
         : v \in {value}})

(* --------------------------- wire responses ---------------------------- *)
Get(f, k, default) == IF k \in DOMAIN f THEN f[k] ELSE default

\* game_info of the appdetails document {appid: game_info}
InfoGame ==
    [data |-> [type |-> "game", genres |-> <<1, 70>>,
               platforms |-> [windows |-> TRUE, mac |-> FALSE, linux |-> TRUE]]]

InfoDlc ==
    [data |-> [type |-> "dlc", genres |-> <<>>, platforms |-> [windows |-> TRUE]]]

\* success: false carries no data (a region block, an unknown id)
InfoFailure == [success |-> FALSE]

\* What connection_lost can have in its buffer for an appdetails request: a
\* status line and a body that is a JSON document or is not.  "garbage" is a
\* body json.loads rejects (or a response with no header/body separator).
DetailResponses ==
    [status : {200}, json : {TRUE}, info : {InfoGame, InfoDlc, InfoFailure}]
    \cup [status : {200, 429}, json : {FALSE}, info : {InfoFailure}]

\* the body of a GetNewsForApp response
NewsDoc(contents) == [appnews |-> [newsitems |-> <<[contents |-> contents]>>]]

NewsFull == NewsDoc(H1 \o <<"a">> \o H1End \o <<"<">>)

NewsResponses == [status : {200}, json : {TRUE, FALSE}, doc : {NewsFull}]

(* ------------------------------- state --------------------------------- *)
VARIABLES
    db,          \* games.db: the rows of table games
    atom,        \* steamnews/<id>.atom
    atomtmp,     \* steamnews/<id>.atom.tmp
    jsonf,       \* steamnews/<id>.json
    index,       \* steamnews/index.html
    indextmp,    \* steamnews/index.html.tmp
    now,         \* time.time(), in hours
    run,         \* the number of runs started
    pc,          \* where main is
    ended,       \* how the last run ended
    fault,       \* what main died of in this run
    applist,     \* the result of the AppList future
    games_map,   \* filter_out_garbage's games_map
    details,     \* the AppDetails requests, in submission order
    dq,          \* the AppDetails futures done and not yet awaited, oldest first
    games,       \* GameDB.games
    chunks,      \* get_news's chunked_games still to do, the current one first
    news,        \* the GameNews requests of the current chunk
    nq,          \* the news futures done and not yet awaited, oldest first
    cur,         \* the game dict being written out
    signalled    \* "yes": a 429 response has come in in this run; "sent after":
                 \* and an AppDetails request has gone out since

store == <<db, atom, atomtmp, jsonf, index, indextmp>>

memory == <<applist, games_map, details, dq, games, chunks, news, nq, cur, signalled>>

vars == <<db, atom, atomtmp, jsonf, index, indextmp, now, run, pc, ended, fault,
          applist, games_map, details, dq, games, chunks, news, nq, cur, signalled>>

NoFiles == [i \in Ids |-> None]

Init ==
    /\ db = {}
    /\ atom = NoFiles
    /\ atomtmp = NoFiles
    /\ jsonf = NoFiles
    /\ index = None
    /\ indextmp = None
    /\ now = 0
    /\ run = 0
    /\ pc = "idle"
    /\ ended = "never"
    /\ fault = "none"
    /\ applist = None
    /\ games_map = <<>>
    /\ details = <<>>
    /\ dq = <<>>
    /\ games = <<>>
    /\ chunks = <<>>
    /\ news = <<>>
    /\ nq = <<>>
    /\ cur = None
    /\ signalled = "no"

\* a process that is gone leaves nothing in memory
Forget ==
    /\ applist' = None
    /\ games_map' = <<>>
    /\ details' = <<>>
    /\ dq' = <<>>
    /\ games' = <<>>
    /\ chunks' = <<>>
    /\ news' = <<>>
    /\ nq' = <<>>
    /\ cur' = None
    /\ signalled' = "no"

\* main is suspended at a yield from (or has died): the loop runs callbacks
Suspended == pc \in {"resolve", "applist", "details", "news", "crashed"}

Running == pc # "idle"

\* An exception leaves main: the task dies and the loop keeps running until
\* the timer stops it.  Nothing awaits the requests any more, so what main
\* held is dropped here.
Raise(why) ==
    /\ pc' = "crashed"
    /\ fault' = why
    /\ Forget

(* ------------------------------ __main__ ------------------------------- *)
\* cron starts the script: the timer is armed and main scheduled
StartRunUpTo(n) ==
    /\ pc = "idle"
    /\ run < n
    /\ run' = run + 1
    /\ pc' = "resolve"
    /\ ended' = "running"
    /\ fault' = "none"
    /\ UNCHANGED <<store, now, memory>>

StartRun == StartRunUpTo(MaxRuns)

\* time passes between runs (a run is shorter than a tick of the clock)
Tick ==
    /\ pc = "idle"
    /\ run >= 1
    /\ now < MaxTime
    /\ now' = now + 1
    /\ UNCHANGED <<store, run, pc, ended, fault, memory>>

\* mutant: the timer is lost when main dies
DeadlineOfLiveMain ==
    /\ Suspended
    /\ pc # "crashed"
    /\ pc' = "idle"
    /\ ended' = "deadline"
    /\ Forget
    /\ UNCHANGED <<store, now, run, fault>>

\* EVENT_LOOP.call_later(60*10, timeout, f): run_until_complete returns
Deadline ==
    /\ Suspended
    /\ pc' = "idle"
    /\ ended' = "deadline"
    /\ Forget
    /\ UNCHANGED <<store, now, run, fault>>

\* the process is killed from outside, anywhere
Kill ==
    /\ Running
    /\ pc' = "idle"
    /\ ended' = "killed"
    /\ Forget
    /\ UNCHANGED <<store, now, run, fault>>

(* -------------------------------- main --------------------------------- *)
\* the two getaddrinfo calls
Resolve ==
    /\ pc = "resolve"
    /\ \/ pc' = "applist" /\ UNCHANGED <<fault, memory>>
       \/ Raise("getaddrinfo")
    /\ UNCHANGED <<store, now, run, ended>>

\* AppList's connection_lost: the future gets json['applist']['apps'], or the
\* ValueError of decode_response
AppListResponse ==
    /\ pc = "applist"
    /\ applist = None
    /\ \/ \E c \in Catalogs : applist' = Some([ok |-> TRUE, apps |-> c])
       \/ applist' = Some([ok |-> FALSE, apps |-> <<>>])
    /\ UNCHANGED <<store, now, run, pc, ended, fault, games_map, details, dq,
                   games, chunks, news, nq, cur, signalled>>


(* ------------------------------- GameDB -------------------------------- *)
Request(appid, st) == [appid |-> appid, st |-> st, resp |-> None]

AllAwaited(reqs) == \A k \in DOMAIN reqs : reqs[k].st = "awaited"

\* mutant: only the games are known
known_game_ids == {r.appid : r \in {q \in db : q.type = "game"}}

\* set(f[0] for f in c.execute('SELECT appid FROM games').fetchall())
known_ids == {r.appid : r \in db}

\* mutant: the catalog is not compared with the table
unknown_games_of_all(apps) ==
    LET keep == {g \in Range(apps) : ~USELESS(g.name)}
    IN SelectSeqBy(apps, keep)

\* mutant: the titles are not classified
unknown_games_of_any_title(apps) ==
    LET keep == {g \in Range(apps) : g.appid \notin known_ids}
    IN SelectSeqBy(apps, keep)

\* update's two comprehensions: not known, then not USELESS
unknown_games(apps) ==
    LET keep == {g \in Range(apps) : g.appid \notin known_ids /\ ~USELESS(g.name)}
    IN SelectSeqBy(apps, keep)

\* {game['appid']: game['name'] for game in games}: the last entry of an id wins
GamesMap(unknown) ==
    [i \in {g.appid : g \in Range(unknown)} |->
        LET last == CHOOSE k \in DOMAIN unknown :
                        /\ unknown[k].appid = i
                        /\ \A j \in DOMAIN unknown : unknown[j].appid = i => j <= k
        IN unknown[last].name]

\* filter_out_garbage up to its loop: AppDetails.get for every unknown game, at
\* once; each connection is still to be made
IssueDetails(unknown) ==
    [k \in DOMAIN unknown |-> Request(unknown[k].appid, "scheduled")]

\* mutant: update does not wait for filter_out_garbage
UpdateWithoutWaiting ==
    /\ pc = "applist"
    /\ applist # None
    /\ LET res == applist[1]
           unknown == unknown_games(res.apps)
       IN IF ~res.ok
          THEN Raise("AppList ValueError")
          ELSE /\ UNCHANGED <<fault, applist, dq, games, chunks, news, nq, cur,
                              signalled>>
               /\ games_map' = GamesMap(unknown)
               /\ details' = IssueDetails(unknown)
               /\ pc' = "get_all"
    /\ UNCHANGED <<store, now, run, ended>>

\* main gets the catalog: GameDB(), then update up to its first yield from.
\* (main keeps the catalog, its local games, to its end.)
Update ==
    /\ pc = "applist"
    /\ applist # None
    /\ LET res == applist[1]
           unknown == unknown_games(res.apps)
       IN IF ~res.ok
          THEN Raise("AppList ValueError")
          ELSE /\ UNCHANGED <<fault, applist, dq, games, chunks, news, nq, cur,
                              signalled>>
               /\ IF unknown # <<>>
                  THEN /\ games_map' = GamesMap(unknown)
                       /\ details' = IssueDetails(unknown)
                       /\ pc' = "details"
                  ELSE /\ pc' = "get_all"
                       /\ UNCHANGED <<games_map, details>>
    /\ UNCHANGED <<store, now, run, ended>>

\* connection_made of an AppDetails request: the request goes out.
DetailConnect(k) ==
    /\ pc = "details"
    /\ k \in DOMAIN details
    /\ details[k].st = "scheduled"
    /\ details' = [details EXCEPT ![k].st = "sent"]
    /\ signalled' = IF signalled = "no" THEN "no" ELSE "sent after"
    /\ UNCHANGED <<store, now, run, pc, ended, fault, applist, games_map, dq,
                   games, chunks, news, nq, cur>>

\* create_connection fails (refused, unreachable, no descriptor left): the
\* exception stays in the task asyncio.async made of create_connection, no
\* protocol callback runs and nothing ever completes the request's future.
DetailConnectFail(k) ==
    /\ pc = "details"
    /\ k \in DOMAIN details
    /\ details[k].st = "scheduled"
    /\ details' = [details EXCEPT ![k].st = "failed"]
    /\ UNCHANGED <<store, now, run, pc, ended, fault, applist, games_map, dq,
                   games, chunks, news, nq, cur, signalled>>

\* connection_lost of an AppDetails request: decode_response completes the
\* future with the document or with the ValueError
DetailResponse(k, r) ==
    /\ pc = "details"
    /\ k \in DOMAIN details
    /\ details[k].st = "sent"
    /\ details' = [details EXCEPT ![k].st = "done", ![k].resp = Some(r)]
    /\ dq' = Append(dq, k)
    /\ signalled' = IF signalled = "no" /\ r.status = 429 THEN "yes" ELSE signalled
    /\ UNCHANGED <<store, now, run, pc, ended, fault, applist, games_map,
                   games, chunks, news, nq, cur>>

\* the tuple f that filter_out_garbage builds from one game_info
DetailRow(appid, name, info) ==
    LET game_data == Get(info, "data", <<>>)
        genres == Get(game_data, "genres", <<>>)
        platforms == Get(game_data, "platforms", <<>>)
    IN [appid |-> appid,
        name |-> name,
        type |-> Get(game_data, "type", "UNKNOWN!!"),
        windows |-> Get(platforms, "windows", FALSE),
        mac |-> Get(platforms, "mac", FALSE),
        linux |-> Get(platforms, "linux", FALSE),
        early_access |-> (70 \in Range(genres))]

\* mutant: a rate-limited answer is not swallowed, it ends the loop
CaughtUnlessRateLimited(r) == ~r.json /\ r.status # 429

\* except ValueError: continue.  decode_response raises ValueError for a body
\* it cannot split or parse, whatever the status line says.
Caught(r) == ~r.json

\* mutant: a table without its primary key
CanInsertAlways(row) == TRUE

\* INSERT INTO games: appid is the primary key, a second row of an id is
\* sqlite3.IntegrityError
CanInsert(row) == row.appid \notin known_ids

\* mutant: the rows are kept for one commit after the loop
InsertLater(row) == db

\* executemany and commit
Insert(row) == db \cup {row}

\* one turn of filter_out_garbage's loop: the next completed future
ProcessDetail ==
    /\ pc = "details"
    /\ dq # <<>>
    /\ LET k == Head(dq)
           r == details[k].resp[1]
           row == DetailRow(details[k].appid, games_map[details[k].appid], r.info)
           rest == [details EXCEPT ![k].st = "awaited", ![k].resp = None]
           goon == /\ details' = rest
                   /\ dq' = Tail(dq)
                   /\ pc' = IF AllAwaited(rest) THEN "get_all" ELSE "details"
                   /\ UNCHANGED <<fault, applist, games_map, games, chunks, news,
                                  nq, cur, signalled>>
       IN IF ~r.json
          THEN IF Caught(r)
               THEN goon /\ UNCHANGED db
               ELSE Raise("ValueError") /\ UNCHANGED db
          ELSE IF CanInsert(row)
               THEN goon /\ db' = Insert(row)
               ELSE Raise("IntegrityError") /\ UNCHANGED db
    /\ UNCHANGED <<atom, atomtmp, jsonf, index, indextmp, now, run, ended>>

Game(row) ==
    [appid |-> row.appid, name |-> row.name, newsitems |-> <<>>,
     windows |-> row.windows, mac |-> row.mac, linux |-> row.linux,
     early_access |-> row.early_access]

\* mutant: the SELECT without its where clause
get_all_of_any_type ==
    LET order == SortedSeq({r.appid : r \in db})
    IN [k \in DOMAIN order |-> Game(CHOOSE r \in db : r.appid = order[k])]

\* SELECT ... FROM games where type == 'game'
get_all ==
    LET rows == {r \in db : r.type = "game"}
        order == SortedSeq({r.appid : r \in rows})
    IN [k \in DOMAIN order |-> Game(CHOOSE r \in rows : r.appid = order[k])]

\* mutant: the list read before the new rows were committed is kept
GetAllStale ==
    /\ pc = "get_all"
    /\ pc' = "get_news"
    /\ UNCHANGED <<store, now, run, ended, fault, memory>>

\* the end of update: self.games = self.get_all()
GetAll ==
    /\ pc = "get_all"
    /\ games' = get_all
    /\ pc' = "get_news"
    /\ UNCHANGED <<store, now, run, ended, fault, applist, games_map, details, dq,
                   chunks, news, nq, cur, signalled>>

(* -------------------------------- files -------------------------------- *)
\* a file that was just opened with 'w'
Opened == [part |-> "empty", doc |-> None, mtime |-> now]

\* some of the text has reached the file
Partly(doc) == [part |-> "partial", doc |-> Some(doc), mtime |-> now]

\* all of it has, and the file is closed
Whole(doc) == [part |-> "full", doc |-> Some(doc), mtime |-> now]

\* mutant: the age of steamnews/<id>.json is taken
getmtime_of_json(appid) ==
    IF jsonf[appid] = None THEN None ELSE Some(jsonf[appid][1].mtime)

\* os.path.getmtime('steamnews/%s.atom'): FileNotFoundError is None
getmtime(appid) == IF atom[appid] = None THEN None ELSE Some(atom[appid][1].mtime)

(* -------------------------------- Game --------------------------------- *)
\* mutant: >= for >
needs_update_inclusive(game) ==
    LET m == getmtime(game.appid)
    IN IF m # None /\ m[1] >= now - FRESH THEN FALSE ELSE TRUE

needs_update(game) ==
    LET m == getmtime(game.appid)
    IN IF m # None /\ m[1] > now - FRESH THEN FALSE ELSE TRUE

\* Game.get_news once its future has a document, then as_dict
as_dict(game, doc) ==
    [appid |-> game.appid, name |-> game.name,
     newsitems |-> Get(Get(doc, "appnews", <<>>), "newsitems", <<>>),
     updatetime |-> now,
     windows |-> game.windows, mac |-> game.mac, linux |-> game.linux,
     early_access |-> game.early_access]

as_slim_dict(game) ==
    [appid |-> game.appid, name |-> game.name,
     windows |-> game.windows, mac |-> game.mac, linux |-> game.linux,
     early_access |-> game.early_access]

(* --------------------------- GameDB.get_news --------------------------- *)
RECURSIVE Chunked(_, _)
\* [games[i:i + n] for i in range(0, len(games), n)]
Chunked(s, n) ==
    IF s = <<>> THEN <<>>
    ELSE IF Len(s) <= n THEN <<s>>
         ELSE <<SubSeq(s, 1, n)>> \o Chunked(SubSeq(s, n + 1, Len(s)), n)

\* mutant: every game is taken, due or not
DueGamesAll == games

\* [g for g in games if g.needs_update()]
DueGames ==
    LET due == {k \in DOMAIN games : needs_update(games[k])}
        order == SortedSeq(due)
    IN [j \in DOMAIN order |-> games[order[j]]]

\* get_news up to its loop over the chunks
NewsSchedule ==
    /\ pc = "get_news"
    /\ chunks' = Chunked(DueGames, chunk_size)
    /\ pc' = "chunk"
    /\ UNCHANGED <<store, now, run, ended, fault, applist, games_map, details, dq,
                   games, news, nq, cur, signalled>>

\* [asyncio.async(game.get_news()) for game in games]: a request per game of
\* the chunk.  (connection_made is no step of its own here: a request that is
\* connecting and one that waits for its response are both under way.)
IssueNews(chunk) == [k \in DOMAIN chunk |-> Request(chunk[k].appid, "sent")]

\* the head of the loop over the chunks: the tasks of the next chunk, or, with
\* no chunk left, back in main
StartChunk ==
    /\ pc = "chunk"
    /\ IF chunks = <<>>
       THEN /\ pc' = "frontend"
            /\ news' = <<>>
       ELSE /\ pc' = "news"
            /\ news' = IssueNews(Head(chunks))
    /\ nq' = <<>>
    /\ UNCHANGED <<store, now, run, ended, fault, applist, games_map, details, dq,
                   games, chunks, cur, signalled>>

\* connection_lost of a GameNews request.  (A request whose connection fails
\* stays "sent" for good.)
NewsResponse(k, r) ==
    /\ pc = "news"
    /\ k \in DOMAIN news
    /\ news[k].st = "sent"
    /\ news' = [news EXCEPT ![k].st = "done", ![k].resp = Some(r)]
    /\ nq' = Append(nq, k)
    /\ UNCHANGED <<store, now, run, pc, ended, fault, applist, games_map, details,
                   dq, games, chunks, cur, signalled>>

\* one turn of the loop over as_completed(news_futures): the task of
\* Game.get_news has returned as_dict(), or died of the request's ValueError,
\* which "game = yield from future" raises again in GameDB.get_news
ProcessNews ==
    /\ pc = "news"
    /\ nq # <<>>
    /\ LET k == Head(nq)
           r == news[k].resp[1]
           game == Head(chunks)[k]
       IN IF r.json
          THEN /\ news' = [news EXCEPT ![k].st = "awaited", ![k].resp = None]
               /\ nq' = Tail(nq)
               /\ cur' = Some(as_dict(game, r.doc))
               /\ pc' = "json"
               /\ UNCHANGED <<fault, applist, games_map, details, dq, games,
                              chunks, signalled>>
          ELSE Raise("news ValueError")
    /\ UNCHANGED <<store, now, run, ended>>

\* with open('steamnews/%s.json', 'w') as f: json.dump(game, f)
WriteJson ==
    /\ pc = "json"
    /\ jsonf' = [jsonf EXCEPT ![cur[1].appid] = Some(Whole(cur[1]))]
    /\ pc' = "tmp_open"
    /\ UNCHANGED <<db, atom, atomtmp, index, indextmp, now, run, ended, fault, memory>>

\* mutant: the feed is opened in place, open('steamnews/%s.atom', 'w')
TmpOpenInPlace ==
    /\ pc = "tmp_open"
    /\ atom' = [atom EXCEPT ![cur[1].appid] = Some(Opened)]
    /\ pc' = "tmp_write"
    /\ UNCHANGED <<db, atomtmp, jsonf, index, indextmp, now, run, ended, fault, memory>>

\* open('steamnews/%s.atom.tmp', 'w')
TmpOpen ==
    /\ pc = "tmp_open"
    /\ atomtmp' = [atomtmp EXCEPT ![cur[1].appid] = Some(Opened)]
    /\ pc' = "tmp_write"
    /\ UNCHANGED <<db, atom, jsonf, index, indextmp, now, run, ended, fault, memory>>

\* The document xml_renderer makes of a game dict: the template atomfeed.xml
\* puts the contents of every news item through its filter 'article'.
Render(game) ==
    [feed |-> [game EXCEPT !.newsitems =
                  [k \in DOMAIN @ |-> [contents |-> render_article(@[k].contents)]]]]

\* f.write(xml_renderer(game)): the renderer can raise, before anything is
\* written
TmpWrite ==
    /\ pc = "tmp_write"
    /\ \/ /\ atomtmp' = [atomtmp EXCEPT ![cur[1].appid] = Some(Partly(Render(cur[1])))]
          /\ pc' = "tmp_close"
          /\ UNCHANGED <<fault, memory>>
       \/ /\ Raise("render")
          /\ UNCHANGED atomtmp
    /\ UNCHANGED <<db, atom, jsonf, index, indextmp, now, run, ended>>

\* the end of the with block flushes and closes the file; the flush can fail
TmpClose ==
    /\ pc = "tmp_close"
    /\ \/ /\ atomtmp' = [atomtmp EXCEPT ![cur[1].appid] = Some(Whole(Render(cur[1])))]
          /\ pc' = "rename"
          /\ UNCHANGED <<fault, memory>>
       \/ /\ Raise("write")
          /\ UNCHANGED atomtmp
    /\ UNCHANGED <<db, atom, jsonf, index, indextmp, now, run, ended>>

\* os.rename(src, dst): dst is now the file src was, and src is gone
Renamed(src) == src

\* mutant: the loop over the chunk's futures is left after the first of them
PublishFeedAndLeave ==
    /\ pc = "rename"
    /\ atom' = [atom EXCEPT ![cur[1].appid] = Renamed(atomtmp[cur[1].appid])]
    /\ atomtmp' = [atomtmp EXCEPT ![cur[1].appid] = None]
    /\ cur' = None
    /\ chunks' = Tail(chunks)
    /\ pc' = "chunk"
    /\ UNCHANGED <<db, jsonf, index, indextmp, now, run, ended, fault, applist,
                   games_map, details, dq, games, news, nq, signalled>>

\* os.rename of the feed, and the loops go on
PublishFeed ==
    /\ pc = "rename"
    /\ atom' = [atom EXCEPT ![cur[1].appid] = Renamed(atomtmp[cur[1].appid])]
    /\ atomtmp' = [atomtmp EXCEPT ![cur[1].appid] = None]
    /\ cur' = None
    /\ IF AllAwaited(news)
       THEN /\ chunks' = Tail(chunks)
            /\ pc' = "chunk"
       ELSE /\ pc' = "news"
            /\ UNCHANGED chunks
    /\ UNCHANGED <<db, jsonf, index, indextmp, now, run, ended, fault, applist,
                   games_map, details, dq, games, news, nq, signalled>>

(* ------------------------ GameDB.write_frontend ------------------------ *)
\* the template with INSERT_GAMES_HERE replaced
Frontend == [frontend |-> [k \in DOMAIN games |-> as_slim_dict(games[k])]]

\* open('steamnews/index.html.tmp', 'w')
IndexOpen ==
    /\ pc = "frontend"
    /\ indextmp' = Some(Opened)
    /\ pc' = "index_write"
    /\ UNCHANGED <<db, atom, atomtmp, jsonf, index, now, run, ended, fault, memory>>

\* f.write(...)
IndexWrite ==
    /\ pc = "index_write"
    /\ indextmp' = Some(Partly(Frontend))
    /\ pc' = "index_close"
    /\ UNCHANGED <<db, atom, atomtmp, jsonf, index, now, run, ended, fault, memory>>

\* the end of the with block
IndexClose ==
    /\ pc = "index_close"
    /\ \/ /\ indextmp' = Some(Whole(Frontend))
          /\ pc' = "index_rename"
          /\ UNCHANGED <<fault, memory>>
       \/ /\ Raise("write")
          /\ UNCHANGED indextmp
    /\ UNCHANGED <<db, atom, atomtmp, jsonf, index, now, run, ended>>

\* os.rename('steamnews/index.html.tmp', 'steamnews/index.html')
PublishIndex ==
    /\ pc = "index_rename"
    /\ index' = Renamed(indextmp)
    /\ indextmp' = None
    /\ pc' = "set_result"
    /\ UNCHANGED <<db, atom, atomtmp, jsonf, now, run, ended, fault, memory>>

\* timeout.set_result(True): run_until_complete returns
Finish ==
    /\ pc = "set_result"
    /\ pc' = "idle"
    /\ ended' = "completed"
    /\ Forget
    /\ UNCHANGED <<store, now, run, fault>>

(* -------------------------- the specification -------------------------- *)
Network ==
    \/ AppListResponse
    \/ \E k \in 1..MaxCatalog : DetailConnect(k)
    \/ \E k \in 1..MaxCatalog : DetailConnectFail(k)
    \/ \E k \in 1..MaxCatalog : \E r \in DetailResponses : DetailResponse(k, r)
    \/ \E k \in 1..chunk_size : \E r \in NewsResponses : NewsResponse(k, r)

Main ==
    \/ Resolve
    \/ Update
    \/ ProcessDetail
    \/ GetAll
    \/ NewsSchedule
    \/ StartChunk
    \/ ProcessNews
    \/ WriteJson
    \/ TmpOpen
    \/ TmpWrite
    \/ TmpClose
    \/ PublishFeed
    \/ IndexOpen
    \/ IndexWrite
    \/ IndexClose
    \/ PublishIndex
    \/ Finish

Next ==
    \/ StartRun
    \/ Tick
    \/ Network
    \/ Main
    \/ Deadline
    \/ Kill

Spec == Init /\ [][Next]_vars

\* What the event loop guarantees: the timer fires, and main runs whenever it
\* has something to run with.  Nothing makes the network answer (Resolve and
\* the responses), cron start a run, or the clock of the model tick.
Steps ==
    \/ Update
    \/ ProcessDetail
    \/ GetAll
    \/ NewsSchedule
    \/ StartChunk
    \/ ProcessNews
    \/ WriteJson
    \/ TmpOpen
    \/ TmpWrite
    \/ TmpClose
    \/ PublishFeed
    \/ IndexOpen
    \/ IndexWrite
    \/ IndexClose
    \/ PublishIndex
    \/ Finish

LiveNext ==
    \/ StartRunUpTo(LiveRuns)
    \/ Tick
    \/ Network
    \/ Main
    \/ Deadline
    \/ Kill

LiveSpec == Init /\ [][LiveNext]_vars /\ WF_vars(Deadline) /\ WF_vars(Steps)


(* ------------------------- one news item's way ------------------------- *)
\* The bodies a news item can come with: text with the characters cgi.escape
\* replaces, and text around one heading whose inner text is plain.
Texts(n) == SeqsUpTo({"a", "<", "&"}, n)

Plain(n) == SeqsUpTo({"a", "b"}, n)

Marked ==
    {Flat(<<pre, open, inner, H1End, post>>) :
        pre \in Texts(MaxPart), open \in {H1, H1Upper},
        inner \in Plain(MaxPart), post \in Texts(MaxPart)}

Bodies == Texts(MaxText) \cup Marked

FooRow == DetailRow(1, Foo, InfoGame)

\* A first run that has found one game and taken the answer to its news
\* request, whatever body its news item has.
ArticleInit ==
    /\ db = {FooRow}
    /\ atom = NoFiles
    /\ atomtmp = NoFiles
    /\ jsonf = NoFiles
    /\ index = None
    /\ indextmp = None
    /\ now = 0
    /\ run = 1
    /\ pc = "json"
    /\ ended = "running"
    /\ fault = "none"
    /\ applist = Some([ok |-> TRUE, apps |-> <<[appid |-> 1, name |-> Foo]>>])
    /\ games_map = GamesMap(<<[appid |-> 1, name |-> Foo]>>)
    /\ details = <<Request(1, "awaited")>>
    /\ dq = <<>>
    /\ games = <<Game(FooRow)>>
    /\ chunks = <<games>>
    /\ news = <<Request(1, "awaited")>>
    /\ nq = <<>>
    /\ \E body \in Bodies : cur = Some(as_dict(Game(FooRow), NewsDoc(body)))
    /\ signalled = "no"

ArticleNext ==
    \/ WriteJson
    \/ TmpOpen
    \/ TmpWrite
    \/ TmpClose
    \/ PublishFeed

ArticleSpec == ArticleInit /\ [][ArticleNext]_vars

(* ------------------------------- claims -------------------------------- *)
Feed(i) == atom[i][1]

\* C1: the stable paths steamnews/<id>.atom and steamnews/index.html never
\* hold an empty or partial document, and they change only by taking, whole,
\* the document rendered by the step that replaces them; whatever happens
\* between the temporary file's opening and the rename (a kill, a failing
\* renderer or write) leaves them as they were.
C1_AtomicPublish ==
    /\ [](\A i \in Ids : atom[i] # None => Feed(i).part = "full")
    /\ [](index # None => index[1].part = "full")
    /\ [][/\ \A i \in Ids : atom'[i] # atom[i] =>
                /\ cur # None
                /\ cur[1].appid = i
                /\ atom'[i] = Some(Whole(Render(cur[1])))
          /\ index' # index => index' = Some(Whole(Frontend))]_vars

\* a run was killed between the closing of the temporary file and the rename,
\* with an older feed in place
C1_Witness ==
    \E i \in Ids :
        /\ ended = "killed"
        /\ atom[i] # None
        /\ atomtmp[i] # None
        /\ atomtmp[i][1].part = "full"
        /\ atomtmp[i][1].doc # Feed(i).doc

HeadIsRateLimited ==
    /\ pc = "details"
    /\ dq # <<>>
    /\ details[Head(dq)].resp[1].status = 429

InFlight == Cardinality({k \in DOMAIN details : details[k].st = "sent"})

\* C3: the AppDetails requests that are out and unanswered never number more
\* than the configured bound.
C3_Bounded == InFlight <= detail_chunk_size

\* C4: every AppDetails request that is created is for an id that has no row
\* in the table when the run computes its unknown games.
C4_UnknownOnly ==
    [][\A k \in DOMAIN details' :
          (k \notin DOMAIN details \/ details'[k].appid # details[k].appid)
              => details'[k].appid \notin known_ids]_vars

\* a second run has created its lookups over a table that has rows
C4_Witness ==
    /\ run = 2
    /\ pc = "details"
    /\ db # {}
    /\ \A k \in DOMAIN details : details[k].st = "scheduled"

\* C5: when the loop of get_news takes a news future that failed, it skips the
\* title and goes on with the chunk (main does not die of it).
C5_Isolated ==
    [][(/\ pc = "news"
        /\ nq # <<>>
        /\ ~news[Head(nq)].resp[1].json
        /\ nq' # nq
        /\ pc' # "idle") => pc' \in {"news", "chunk"}]_vars

\* C6: needs_update is false exactly when the feed exists and is less than
\* the threshold old.
C6_NeedsRefresh ==
    \A i \in Ids :
        needs_update([appid |-> i]) = ~(atom[i] # None /\ now - Feed(i).mtime < FRESH)

\* a game whose feed is exactly the threshold old has been scheduled
C6_Witness ==
    /\ pc = "chunk"
    /\ \E c \in Range(chunks) : \E g \in Range(c) :
          atom[g.appid] # None /\ now - Feed(g.appid).mtime = FRESH

\* C7: every id with a feed has a row of type game.
C7_FeedsAreGames ==
    \A i \in Ids : atom[i] # None => \E r \in db : r.appid = i /\ r.type = "game"

\* a feed is out while the table also holds a row that is no game
C7_Witness ==
    /\ \E i \in Ids : atom[i] # None
    /\ \E r \in db : r.type # "game"

SlimRows ==
    {[appid |-> r.appid, name |-> r.name, windows |-> r.windows, mac |-> r.mac,
      linux |-> r.linux, early_access |-> r.early_access] : r \in {q \in db : q.type = "game"}}

\* C8: the index that is published lists the slim projection of exactly the
\* rows of type game the table holds at that moment, each once.
C8_IndexIsSlimProjection ==
    [][index' # index =>
         /\ index'[1].part = "full"
         /\ Range(index'[1].doc[1].frontend) = SlimRows
         /\ Len(index'[1].doc[1].frontend) = Cardinality(SlimRows)]_vars

\* the first run has published an index with a game in it, committed in that
\* run beside a row that is no game
C8_Witness ==
    /\ run = 1
    /\ index # None
    /\ index[1].doc[1].frontend # <<>>
    /\ \E r \in db : r.type # "game"

\* C9: every run ends (main completes, or the timer ends the run, also when a
\* request never resolves or main has died), and the step of the deadline
\* leaves the table and the files as they are.
C9_RunTerminates ==
    /\ (Running ~> ~Running)
    /\ [][(ended = "running" /\ ended' = "deadline") =>
            (db' = db /\ atom' = atom /\ index' = index /\ jsonf' = jsonf)]_vars

\* a run that died of an exception after committing rows was ended by the timer
C9_Witness ==
    /\ ended = "deadline"
    /\ fault # "none"
    /\ db # {}

\* C10: a row, once in the table, stays as it is, and no second row of its id
\* joins it.
C10_AppendOnly ==
    [][/\ db \subseteq db'
       /\ \A r \in db' : \A q \in db : q.appid = r.appid => q = r]_vars

\* a second run tried to insert a row for an id that had one
C10_Witness ==
    /\ run = 2
    /\ fault = "IntegrityError"
    /\ db # {}

Lookups(reqs) == {reqs[k].appid : k \in DOMAIN reqs}

KeptUnknown(apps) ==
    {k \in DOMAIN apps : apps[k].appid \notin {r.appid : r \in db} /\ ~USELESS(apps[k].name)}

\* C11: the lookups of a run are created in one step, from the catalog: one
\* for every entry whose id has no row in the table and whose title the
\* classifier keeps, and none besides; so the ids looked up are exactly the
\* catalog ids that are not in the table and have a kept title, and every
\* lookup there is has an entry with a kept title in the catalog.
C11_KeptOnly ==
    /\ [][IF pc = "applist" /\ pc' \in {"details", "get_all"}
          THEN /\ Lookups(details') = {applist[1].apps[k].appid : k \in KeptUnknown(applist[1].apps)}
               /\ Len(details') = Cardinality(KeptUnknown(applist[1].apps))
          ELSE Lookups(details') \subseteq Lookups(details)]_vars
    /\ [](\A k \in DOMAIN details :
            \E g \in Range(applist[1].apps) : g.appid = details[k].appid /\ ~USELESS(g.name))

\* a run has created its lookups from a catalog that has an entry with a
\* dropped title, for whose id there is no row and no lookup
C11_Witness ==
    /\ pc = "details"
    /\ \E g \in Range(applist[1].apps) :
          /\ USELESS(g.name)
          /\ g.appid \notin known_ids
          /\ g.appid \notin Lookups(details)

\* the body of the news item of steamnews/<i>.json, as it came
Body(i) == jsonf[i][1].doc[1].newsitems[1].contents

\* what steamnews/<i>.atom has for it
Article(i) == Feed(i).doc[1].feed.newsitems[1].contents

HasMarker(value) == \E k \in recognized_tags : Contains(Lower(value), <<"[">> \o k)

Element(inner) == <<"<","h","1",">">> \o inner \o <<"<","/","h","1",">">>

\* C12 as stated: a body with a heading comes out as the element <h1>..</h1>
\* around the escaped inner text, between the escaped texts around it; a body
\* without a recognized marker comes out escaped.
C12_ElementAroundEscaped ==
    \A i \in Ids : atom[i] # None =>
        /\ ~HasMarker(Body(i)) => Article(i) = escape(Body(i))
        /\ \A pre \in Texts(MaxPart), open \in {H1, H1Upper},
              inner \in Plain(MaxPart), post \in Texts(MaxPart) :
                Body(i) = Flat(<<pre, open, inner, H1End, post>>) =>
                    Article(i) = Flat(<<escape(pre), Element(escape(inner)), escape(post)>>)

\* C12 as amended: a body with a heading comes out as the escaped whole of
\* what the markup parser makes of it, the tags of the element escaped with
\* the rest, so that no < or > is left in it; a body without a recognized
\* marker comes out escaped.
C12_EscapedWhole ==
    \A i \in Ids : atom[i] # None =>
        /\ ~HasMarker(Body(i)) => Article(i) = escape(Body(i))
        /\ \A pre \in Texts(MaxPart), open \in {H1, H1Upper},
              inner \in Plain(MaxPart), post \in Texts(MaxPart) :
                Body(i) = Flat(<<pre, open, inner, H1End, post>>) =>
                    Article(i) = escape(Flat(<<pre, Element(inner), post>>))
        /\ \A k \in DOMAIN Article(i) : Article(i)[k] \notin {"<", ">"}

\* a feed is out whose news item came with an upper-case heading after a "<"
C12_Witness ==
    /\ atom[1] # None
    /\ Body(1) = Flat(<<(<<"<">>), H1Upper, (<<"a">>), H1End, (<<"&">>)>>)
    /\ Article(1) # escape(Body(1))

\* the feed of id i is there and less than the threshold old
Fresh(i) == atom[i] # None /\ now - Feed(i).mtime < FRESH

Scheduled(cs) == UNION {{cs[c][k].appid : k \in DOMAIN cs[c]} : c \in DOMAIN cs}

\* C13: the news phase schedules exactly the games of the list whose feed is
\* not fresh at that moment, each once; the schedule only shrinks afterwards,
\* and the news requests a run creates are those of the chunk at the head of
\* its schedule, so none is for a game that was fresh when it was scheduled.
C13_DueOnly ==
    [][/\ (pc = "get_news" /\ pc' = "chunk") =>
            /\ Scheduled(chunks') = {games[k].appid : k \in {j \in DOMAIN games : ~Fresh(games[j].appid)}}
            /\ Len(Flat(chunks')) = Cardinality({j \in DOMAIN games : ~Fresh(games[j].appid)})
       /\ (pc # "get_news" /\ chunks' # chunks) => chunks' \in {Tail(chunks), <<>>}
       /\ (news' # news /\ \E k \in DOMAIN news' : news'[k].st = "sent" /\ news'[k].resp = None
                /\ (k \notin DOMAIN news \/ news[k].st = "awaited")) =>
            /\ pc = "chunk"
            /\ chunks # <<>>
            /\ Len(news') = Len(Head(chunks))
            /\ \A k \in DOMAIN news' : news'[k].appid = Head(chunks)[k].appid]_vars

\* a second run with two games in its list has requests out for one of them
\* only: the feed of the other was fresh
C13_Witness ==
    /\ run = 2
    /\ pc = "news"
    /\ Len(games) = 2
    /\ Len(chunks) = 1
    /\ Len(news) = 1
    /\ news[1].st = "sent"
    /\ \E k \in DOMAIN games : games[k].appid # news[1].appid /\ Fresh(games[k].appid)

\* the loop of filter_out_garbage takes a decoded answer for an id without a row
TakesAnswer ==
    /\ pc = "details"
    /\ dq # <<>>
    /\ dq' = Tail(dq)
    /\ pc' \in {"details", "get_all"}
    /\ details[Head(dq)].resp[1].json
    /\ details[Head(dq)].appid \notin {r.appid : r \in db}

\* C14: the step that takes an answer commits its row, before the next answer
\* is awaited, and no later step of this or a later run (a deadline, a
\* failure, a kill, the start of the next run) takes a row away.
C14_CommittedAtOnce ==
    [][/\ TakesAnswer => \E r \in db' : r.appid = details[Head(dq)].appid
       /\ \A r \in db : r \in db']_vars

\* a second run starts over the rows of a first run that was ended before it
\* had written any file
C14_Witness ==
    /\ run = 2
    /\ pc = "resolve"
    /\ ended = "running"
    /\ db # {}
    /\ index = None
    /\ atom = NoFiles
    /\ jsonf = NoFiles

\* a lookup the loop of filter_out_garbage can still get an answer of
Pending(k) == details[k].st \in {"scheduled", "sent", "done"}

\* C15: a lookup that failed (its connection, or its answer) holds up nothing
\* but its own id: the run stays in the loop of filter_out_garbage only while
\* a lookup is left that can still be answered or taken, and goes on to the
\* news once the others are committed.
C15_FailureIsolated == pc = "details" => \E k \in DOMAIN details : Pending(k)

\* C16: what a run leaves undone is there to do for the next.  An id gets a
\* row only in the step that commits its answer, so a lookup that ended
\* otherwise leaves the id unknown, and update looks up every unknown id of
\* the catalog that has a kept title.  A feed changes only in the step that
\* renames the finished temporary file onto it, so a game whose news did not
\* get that far, if it was due, is still due, and get_news schedules every
\* game of its list that is due.
C16_Reattempted ==
    [][/\ \A i \in Ids :
            (i \in {r.appid : r \in db'} /\ i \notin {r.appid : r \in db}) =>
                (TakesAnswer /\ details[Head(dq)].appid = i)
       /\ (pc = "applist" /\ pc' \in {"details", "get_all"}) =>
            \A g \in Range(applist[1].apps) :
                (g.appid \notin {r.appid : r \in db} /\ ~USELESS(g.name))
                    => g.appid \in Lookups(details')
       /\ \A i \in Ids :
            /\ atom'[i] # atom[i] =>
                  (pc = "rename" /\ cur[1].appid = i /\ atom'[i] = atomtmp[i])
            /\ (~Fresh(i) /\ atom'[i] = atom[i]) => ~Fresh(i)'
       /\ (pc = "get_news" /\ pc' = "chunk") =>
            \A k \in DOMAIN games : ~Fresh(games[k].appid) =>
                games[k].appid \in Scheduled(chunks')]_vars

\* a second run has a news request out for a game whose news an earlier run
\* had fetched and written to steamnews/<id>.json without publishing a feed
C16_Witness ==
    /\ run = 2
    /\ pc = "news"
    /\ \E k \in DOMAIN news :
          /\ news[k].st = "sent"
          /\ jsonf[news[k].appid] # None
          /\ atom[news[k].appid] = None

\* the ids whose row says they are no game (a failed lookup has the type
\* "UNKNOWN!!")
Excluded == {r.appid : r \in {q \in db : q.type # "game"}}

Listed(file) == {file[1].doc[1].frontend[k].appid : k \in DOMAIN file[1].doc[1].frontend}

\* C17: an answer that names another type than game, or carries no data, is
\* committed as a row that is no game; such a row stays as it is, no lookup is
\* created for its id again, its id has no feed and is in no index; and no id
\* has two rows.
C17_ExcludedForGood ==
    /\ [](\A i \in Ids : Cardinality({r \in db : r.appid = i}) <= 1)
    /\ [](\A i \in Excluded :
            /\ atom[i] = None /\ atomtmp[i] = None /\ jsonf[i] = None
            /\ index # None => i \notin Listed(index)
            /\ indextmp # None /\ indextmp[1].doc # None => i \notin Listed(indextmp))
    /\ [][/\ (TakesAnswer /\ Get(Get(details[Head(dq)].resp[1].info, "data", <<>>), "type", "none") # "game")
                => details[Head(dq)].appid \in Excluded'
          /\ Excluded \subseteq Excluded'
          /\ \A k \in DOMAIN details' :
                (k \notin DOMAIN details \/ details'[k].appid # details[k].appid)
                    => details'[k].appid \notin Excluded]_vars

\* a second run has created lookups from a catalog that lists, with a kept
\* title, an id that an earlier answer excluded, and none of them is for it
C17_Witness ==
    /\ run = 2
    /\ pc = "details"
    /\ \E g \in Range(applist[1].apps) :
          /\ ~USELESS(g.name)
          /\ g.appid \in Excluded
          /\ g.appid \notin Lookups(details)
          /\ \A k \in DOMAIN details : details[k].st = "scheduled"

\* the loop of filter_out_garbage takes a decoded answer for an id that has a
\* row already
TakesSecondAnswer ==
    /\ pc = "details"
    /\ dq # <<>>
    /\ dq' # dq
    /\ pc' # "idle"
    /\ details[Head(dq)].resp[1].json
    /\ details[Head(dq)].appid \in {r.appid : r \in db}

\* C18: when a second answer for an id is taken, its commit succeeds: the
\* table then has one row for the id, the one made of this answer, and the
\* run goes on.
C18_LastCommitWins ==
    [][TakesSecondAnswer =>
          LET k == Head(dq)
              i == details[k].appid
          IN /\ pc' \in {"details", "get_all"}
             /\ {r \in db' : r.appid = i}
                    = {DetailRow(i, games_map[i], details[k].resp[1].info)}]_vars

\* C19: get_news is at the head of its loop over the chunks, where it creates
\* the requests of the next chunk or leaves, only when every request of the
\* chunk before has been taken; a request joins the completed ones, at their
\* end, when its answer comes, and the loop takes them from the front, so the
\* game it writes out next is the one whose request completed first.
C19_ChunkByChunk ==
    /\ [](pc = "chunk" => AllAwaited(news))
    /\ [][/\ (\E k \in DOMAIN news' : news'[k].st = "sent" /\
                    (k \notin DOMAIN news \/ news[k].st # "sent"))
                => (pc = "chunk" /\ AllAwaited(news))
          /\ nq' # nq =>
                \/ nq' = <<>>
                \/ \E k \in DOMAIN news :
                      /\ news[k].st = "sent"
                      /\ k \in DOMAIN news'
                      /\ news'[k].st = "done"
                      /\ nq' = Append(nq, k)
                \/ /\ nq # <<>>
                   /\ nq' = Tail(nq)
                   /\ cur' # None
                   /\ cur'[1].appid = news[Head(nq)].appid
                   /\ Head(nq) \in DOMAIN news'
                   /\ news'[Head(nq)].st = "awaited"]_vars

\* in the first of two chunks the game of the second request is being
\* written out while the first request is still unanswered
C19_Witness ==
    /\ pc = "json"
    /\ Len(chunks) = 2
    /\ Len(news) = 2
    /\ news[1].st = "sent"
    /\ cur[1].appid = news[2].appid

NewsPhase == {"get_news", "chunk", "news", "json", "tmp_open", "tmp_write", "tmp_close", "rename"}

IndexPhase == {"frontend", "index_write", "index_close", "index_rename"}

\* C20: a run is in its news phase only with every lookup taken and the list
\* of games as read from the table after the last commit; it writes the index
\* only with no chunk left and every news request taken; it signals its end
\* only with the index of this run in place; the index changes in no other
\* step than the rename at the end of write_frontend, which a run that has
\* failed or was ended before does not get to.
C20_PhasesInOrder ==
    /\ [](pc \in NewsPhase \cup IndexPhase \cup {"set_result"} =>
            /\ AllAwaited(details)
            /\ dq = <<>>
            /\ games = get_all)
    /\ [](pc \in IndexPhase \cup {"set_result"} =>
            /\ chunks = <<>>
            /\ AllAwaited(news)
            /\ nq = <<>>
            /\ cur = None)
    /\ [](pc = "set_result" => index = Some(Whole(Frontend)))
    /\ [][/\ index' # index => (pc = "index_rename" /\ fault = "none" /\ ended = "running")
          /\ (ended' = "completed" /\ ended # "completed") => pc = "set_result"
          /\ (pc' \in NewsPhase /\ pc \notin NewsPhase) => pc = "get_all"
          /\ (pc' \in IndexPhase /\ pc \notin IndexPhase) => pc = "chunk"
          /\ (pc' = "set_result" /\ pc # "set_result") => pc = "index_rename"]_vars

\* a first run that committed a row and published a feed has published its
\* index and signalled its end
C20_Witness ==
    /\ run = 1
    /\ ended = "completed"
    /\ db # {}
    /\ \E i \in Ids : atom[i] # None
    /\ index # None

====
